---- MODULE Spec2Model ----
(***************************************************************************)
(* Model of the media download pipeline of ai_media_studio_cli/download.py *)
(* (download_media_async and the helpers it calls).                        *)
(*                                                                         *)
(* Python strings are sequences of one-character strings, so that the      *)
(* string operations of the code (startswith, replace, split, urlparse,    *)
(* Path.name, Path.suffix, lower) are computed the way the code computes   *)
(* them.  A local path is a record [folder, name]: folder is "" for        *)
(* download_dir itself or the name of a sub-folder of download_dir, name   *)
(* is the file name (the empty name denotes the folder itself).            *)
(***************************************************************************)
EXTENDS Integers, Sequences, FiniteSets, TLC

(***************************************************************************)
(* Bounds of the model.                                                    *)
(***************************************************************************)
\* longest list of references passed to download_media_async
MaxRefs == 2
\* number of chunks of a response body
MaxChunks == 1
\* greatest number of downloads and of media of a summary printed directly
MaxCount == 3


(***************************************************************************)
(* The references the model draws its input lists from.                    *)
(***************************************************************************)
\* "gs://b/x/c.PNG": a storage URI, upper-case extension
GsImageX == <<"g","s",":","/","/","b","/","x","/","c",".","P","N","G">>
\* "gs://b/y/c.PNG": another object with the same final path segment
GsImageY == <<"g","s",":","/","/","b","/","y","/","c",".","P","N","G">>
\* "gs://b/": a storage URI whose object path is empty
GsNoName == <<"g","s",":","/","/","b","/">>
\* "gs://b": a storage URI without an object path
GsNoSlash == <<"g","s",":","/","/","b">>
\* "http://h/clip.mp4"
UrlClip == <<"h","t","t","p",":","/","/","h","/","c","l","i","p",".","m","p","4">>
\* "http://h/?q": a URL whose path has no final segment, with a query
UrlNoName == <<"h","t","t","p",":","/","/","h","/","?","q">>
\* "http://[h/a.png": a URL whose host part has an unbalanced bracket
UrlBadNetloc == <<"h","t","t","p",":","/","/","[","h","/","a",".","p","n","g">>

RefPool ==
  { GsImageX, GsImageY, GsNoName, GsNoSlash, UrlClip, UrlNoName, UrlBadNetloc }

(***************************************************************************)
(* Python string operations.                                               *)
(***************************************************************************)
UpperCase ==
  <<"A","B","C","D","E","F","G","H","I","J","K","L","M",
    "N","O","P","Q","R","S","T","U","V","W","X","Y","Z">>
LowerCase ==
  <<"a","b","c","d","e","f","g","h","i","j","k","l","m",
    "n","o","p","q","r","s","t","u","v","w","x","y","z">>
Digits == <<"0","1","2","3","4","5","6","7","8","9">>

Range(s) == { s[x] : x \in DOMAIN s }

\* str.startswith(p)
StartsWith(s, p) == Len(s) >= Len(p) /\ SubSeq(s, 1, Len(p)) = p

\* s[x-1:] for a 1-based x
From(s, x) == SubSeq(s, x, Len(s))

\* str.find(c) for a character c, 1-based; 0 when c does not occur
Find(s, c) ==
  IF c \in Range(s)
  THEN CHOOSE x \in DOMAIN s : s[x] = c /\ \A y \in 1..(x - 1) : s[y] # c
  ELSE 0

\* str.rfind(c) for a character c, 1-based; 0 when c does not occur
RFind(s, c) ==
  IF c \in Range(s)
  THEN CHOOSE x \in DOMAIN s : s[x] = c /\ \A y \in (x + 1)..Len(s) : s[y] # c
  ELSE 0

\* str.lower() on ASCII
\* U+212A KELVIN SIGN, the one character outside ASCII that str.lower()
\* sends to an ASCII letter
KelvinSign == "U+212A"
LowerChar(c) ==
  IF c \in Range(UpperCase)
  THEN LowerCase[CHOOSE x \in DOMAIN UpperCase : UpperCase[x] = c]
  ELSE IF c = KelvinSign THEN "k"
  ELSE c
Lower(s) == [x \in DOMAIN s |-> LowerChar(s[x])]

\* str.replace(old, ""): every non-overlapping occurrence, left to right
RECURSIVE Remove(_, _)
Remove(s, old) ==
  IF s = <<>> THEN <<>>
  ELSE IF StartsWith(s, old) THEN Remove(From(s, Len(old) + 1), old)
  ELSE <<Head(s)>> \o Remove(Tail(s), old)

\* str.split(c, 1)
SplitOnce(s, c) ==
  LET x == Find(s, c)
  IN  IF x = 0 THEN <<s>> ELSE <<SubSeq(s, 1, x - 1), From(s, x + 1)>>

\* str.split(c)
RECURSIVE Split(_, _)
Split(s, c) ==
  LET x == Find(s, c)
  IN  IF x = 0 THEN <<s>>
      ELSE <<SubSeq(s, 1, x - 1)>> \o Split(From(s, x + 1), c)

\* str(n) for n >= 0
RECURSIVE IntToStr(_)
IntToStr(n) ==
  IF n < 10 THEN <<Digits[n + 1]>>
  ELSE IntToStr(n \div 10) \o <<Digits[(n % 10) + 1]>>

\* the parts of PurePosixPath(s) below the root: empty and "." segments drop
PathParts(s) ==
  SelectSeq(Split(s, "/"), LAMBDA seg : seg # <<>> /\ seg # <<".">>)

\* Path(s).name
PathName(s) ==
  LET parts == PathParts(s)
  IN  IF parts = <<>> THEN <<>> ELSE parts[Len(parts)]

\* Path(name).suffix, for a name without "/"
PathSuffix(name) ==
  LET x == RFind(name, ".")
  IN  IF 1 < x /\ x < Len(name) THEN From(name, x) ELSE <<>>

(***************************************************************************)
(* urllib.parse.urlparse(uri), as far as line 258 uses it.                 *)
(***************************************************************************)
SchemeChars ==
  Range(LowerCase) \cup Range(UpperCase) \cup Range(Digits) \cup {"+", "-", "."}
Letters == Range(LowerCase) \cup Range(UpperCase)

\* the url with its scheme and colon removed, when it has a scheme
AfterScheme(url) ==
  LET x == Find(url, ":")
  IN  IF /\ x > 1
         /\ url[1] \in Letters
         /\ \A y \in 1..(x - 1) : url[y] \in SchemeChars
      THEN From(url, x + 1)
      ELSE url

\* the position of the first of "/", "?", "#" at or after position 3
NetlocEnd(rest) ==
  LET hits == { x \in 3..Len(rest) : rest[x] \in {"/", "?", "#"} }
  IN  IF hits = {} THEN Len(rest) + 1
      ELSE CHOOSE x \in hits : \A y \in hits : x <= y

HasNetloc(rest) == StartsWith(rest, <<"/", "/">>)
Netloc(rest) ==
  IF HasNetloc(rest) THEN SubSeq(rest, 3, NetlocEnd(rest) - 1) ELSE <<>>
AfterNetloc(rest) ==
  IF HasNetloc(rest) THEN From(rest, NetlocEnd(rest)) ELSE rest

\* urlsplit raises ValueError("Invalid IPv6 URL")
UrlParseRaises(uri) ==
  LET netloc == Netloc(AfterScheme(uri))
  IN  \/ "[" \in Range(netloc) /\ "]" \notin Range(netloc)
      \/ "]" \in Range(netloc) /\ "[" \notin Range(netloc)

\* urlparse(uri).path: fragment, then query, cut off what follows the netloc
UrlPath(uri) ==
  LET rest   == AfterNetloc(AfterScheme(uri))
      noFrag == SplitOnce(rest, "#")[1]
  IN  SplitOnce(noFrag, "?")[1]

(***************************************************************************)
(* download.py                                                             *)
(***************************************************************************)
GsPrefix == <<"g","s",":","/","/">>
MediaPrefix == <<"m","e","d","i","a","_">>

\* MEDIA_TYPES, in the order of the dict
MediaTypeKeys == <<"videos", "images", "audios">>
MEDIA_TYPES ==
  [ videos |->
      { <<".","m","p","4">>, <<".","a","v","i">>, <<".","m","o","v">>,
        <<".","m","k","v">>, <<".","w","m","v">>, <<".","f","l","v">>,
        <<".","w","e","b","m">>, <<".","m","4","v">>, <<".","3","g","p">> },
    images |->
      { <<".","j","p","g">>, <<".","j","p","e","g">>, <<".","p","n","g">>,
        <<".","g","i","f">>, <<".","b","m","p">>, <<".","t","i","f","f">>,
        <<".","s","v","g">>, <<".","w","e","b","p">>, <<".","i","c","o">> },
    audios |->
      { <<".","m","p","3">>, <<".","w","a","v">>, <<".","f","l","a","c">>,
        <<".","a","a","c">>, <<".","o","g","g">>, <<".","w","m","a">>,
        <<".","m","4","a">>, <<".","o","p","u","s">> } ]

\* a mutant of get_media_type: the types are named in the singular
get_media_type_singular(file_extension) ==
  LET ext == Lower(file_extension)
  IN  IF ext \in MEDIA_TYPES["videos"] THEN "video"
      ELSE IF ext \in MEDIA_TYPES["images"] THEN "image"
      ELSE IF ext \in MEDIA_TYPES["audios"] THEN "audio"
      ELSE "unknown"

\* a mutant of get_media_type: the extension is looked up as it is given
get_media_type_case_sensitive(file_extension) ==
  LET hits == { x \in DOMAIN MediaTypeKeys :
                  file_extension \in MEDIA_TYPES[MediaTypeKeys[x]] }
  IN  IF hits = {} THEN "unknown"
      ELSE MediaTypeKeys[CHOOSE x \in hits : \A y \in hits : x <= y]

\* get_media_type(file_extension): the first type whose set holds the
\* lower-cased extension, else 'unknown'
get_media_type(file_extension) ==
  LET ext  == Lower(file_extension)
      hits == { x \in DOMAIN MediaTypeKeys : ext \in MEDIA_TYPES[MediaTypeKeys[x]] }
  IN  IF hits = {} THEN "unknown"
      ELSE MediaTypeKeys[CHOOSE x \in hits : \A y \in hits : x <= y]

\* the folders create_media_folders makes, in the order it makes them
FolderOrder == MediaTypeKeys \o <<"unknown">>

\* the dict create_media_folders returns: media type -> folder under base_dir
create_media_folders == [t \in Range(FolderOrder) |-> t]

\* a mutant of mkdir: Path.mkdir() without exist_ok raises on a folder that
\* exists
mkdir_exist_not_ok(name, existing, not_dirs, writable) ==
  name \notin existing /\ name \notin not_dirs /\ writable

\* lines 61, 66: folder_path.mkdir(exist_ok=True) returns (and does not
\* raise) when the folder exists already, or when nothing else has its name
\* and base_dir lets entries be made
mkdir(name, existing, not_dirs, writable) ==
  name \in existing \/ (name \notin not_dirs /\ writable)

\* lines 58-69: the folders of FolderOrder from position x on are made, one
\* after the other, up to the first mkdir that raises
RECURSIVE MakeFolders(_, _, _, _)
MakeFolders(x, existing, not_dirs, writable) ==
  IF x > Len(FolderOrder) THEN [raised |-> FALSE, dirs |-> existing]
  ELSE IF ~mkdir(FolderOrder[x], existing, not_dirs, writable)
       THEN [raised |-> TRUE, dirs |-> existing]
       ELSE MakeFolders(x + 1, existing \cup {FolderOrder[x]}, not_dirs, writable)


\* None and the values download_url takes: a plain URL is the reference
\* itself, a signed URL is the one the storage service issued for it
None == [kind |-> "none", of |-> <<>>]
PlainUrl(uri) == [kind |-> "plain", of |-> uri]
SignedUrl(uri) == [kind |-> "signed", of |-> uri]

\* line 249, 276: uri.startswith("gs://")
IsGcsUri(uri) == StartsWith(uri, GsPrefix)

\* lines 92, 134, 251: uri.replace("gs://", "").split("/", 1)
GcsPathParts(uri) == SplitOnce(Remove(uri, GsPrefix), "/")

\* lines 249-261: the filename of the i-th reference (when urlparse returns)
Filename(uri, i) ==
  IF IsGcsUri(uri)
  THEN LET path_parts == GcsPathParts(uri)
       IN  IF Len(path_parts) > 1
           THEN PathName(path_parts[2])
           ELSE MediaPrefix \o IntToStr(i)
  ELSE LET filename == PathName(UrlPath(uri))
       IN  IF filename = <<>> THEN MediaPrefix \o IntToStr(i) ELSE filename

\* a mutant of TargetFolder: the folder of the media type, whatever the flag
TargetFolderByTypeAlways(filename, organize) ==
  LET media_type == get_media_type(Lower(PathSuffix(filename)))
  IN  IF media_type \in DOMAIN create_media_folders
      THEN create_media_folders[media_type]
      ELSE create_media_folders["unknown"]

\* lines 264-270: the target path of a filename
TargetFolder(filename, organize) ==
  IF organize
  THEN LET media_type == get_media_type(Lower(PathSuffix(filename)))
       IN  IF media_type \in DOMAIN create_media_folders
           THEN create_media_folders[media_type]
           ELSE create_media_folders["unknown"]
  ELSE ""
TargetPath(filename, organize) ==
  [folder |-> TargetFolder(filename, organize), name |-> filename]

\* lines 124-137: convert_gcs_uri_to_signed_url asks the storage service
\* only with the client library present and a URI that splits in two
ConvertAsksStorage(uri, gcs_available) ==
  gcs_available /\ IsGcsUri(uri) /\ Len(GcsPathParts(uri)) = 2

\* a mutant of convert_gcs_uri_to_signed_url: a signed URL is returned
\* although the storage service refused to issue one
ConvertIgnoresRefusal(uri, gcs_available, issued) ==
  IF ~gcs_available THEN None
  ELSE IF ~IsGcsUri(uri) THEN PlainUrl(uri)
  ELSE IF Len(GcsPathParts(uri)) # 2 THEN None
  ELSE SignedUrl(uri)

\* lines 124-160: the value convert_gcs_uri_to_signed_url returns, given
\* whether the storage service issues the signed URL when asked
convert_gcs_uri_to_signed_url(uri, gcs_available, issued) ==
  IF ~gcs_available THEN None
  ELSE IF ~IsGcsUri(uri) THEN PlainUrl(uri)
  ELSE IF Len(GcsPathParts(uri)) # 2 THEN None
  ELSE IF issued THEN SignedUrl(uri)
  ELSE None

\* a mutant of IsTruthy: the result of the conversion is not tested
IsTruthyUnchecked(signed_url) == TRUE

\* line 279: if signed_url
IsTruthy(signed_url) == signed_url.kind # "none"

\* history: how the resolution of a reference ended
Resolution(uri, signed_url) ==
  IF ~IsGcsUri(uri) THEN "plain"
  ELSE IF signed_url = None THEN "failed"
  ELSE "signed"

\* lines 82-104: delete_gcs_file reaches blob.delete()
DeleteAsksStorage(uri, gcs_available) ==
  gcs_available /\ IsGcsUri(uri) /\ Len(GcsPathParts(uri)) = 2

\* line 302: the cleanup loop calls delete_gcs_file for this reference
NeedsCleanup(original_uri) == IsGcsUri(original_uri)

\* lines 328-340: the organize_by_type that download_videos passes on
download_videos_organize_by_type == FALSE

(***************************************************************************)
(* ui_components.create_download_status_panel and print_download_summary.  *)
(***************************************************************************)
AllSuccessful == "All downloads successful"
PartialSuccess == "Partial success"
AllFailed == "All downloads failed"

\* a mutant of create_download_status_panel: no success is tested first
StatusPanelZeroFirst(success_count, total_count) ==
  IF success_count = 0 THEN AllFailed
  ELSE IF success_count = total_count THEN AllSuccessful
  ELSE PartialSuccess

\* ui_components.py lines 175-186: the status text of the panel
create_download_status_panel(success_count, total_count) ==
  IF success_count = total_count THEN AllSuccessful
  ELSE IF success_count > 0 THEN PartialSuccess
  ELSE AllFailed

\* line 222: the name of download_dir when no output_dir is given
DownloadDirName == "downloaded_media"

\* line 363: local_path.parent.name
ParentName(local_path) ==
  IF local_path.folder = "" THEN DownloadDirName ELSE local_path.folder

\* line 361: the keys of by_type, in the order of the dict
ByTypeKeys == <<"videos", "images", "audios", "unknown">>

\* lines 363-367: the key of by_type under which a path is put
GroupOf(local_path) ==
  IF ParentName(local_path) \in Range(ByTypeKeys)
  THEN ParentName(local_path) ELSE "unknown"

\* lines 369-374: the lines printed for the keys from position x on: for
\* every key that has files, the files in the order of downloads
RECURSIVE ListedByType(_, _)
ListedByType(downloads, x) ==
  IF x > Len(ByTypeKeys) THEN <<>>
  ELSE LET mine == SelectSeq(downloads,
                     LAMBDA d : GroupOf(d.filepath) = ByTypeKeys[x])
       IN  [y \in DOMAIN mine |->
              [media_type |-> ByTypeKeys[x], filepath |-> mine[y].filepath]]
           \o ListedByType(downloads, x + 1)

\* lines 343-381: what print_download_summary prints: the status of the
\* panel and the files listed, each with the heading it is under
print_download_summary(downloads, total_media, organized) ==
  [ status |-> create_download_status_panel(Len(downloads), total_media),
    listed |->
      IF organized THEN ListedByType(downloads, 1)
      ELSE [y \in DOMAIN downloads |->
              [media_type |-> "", filepath |-> downloads[y].filepath]] ]

\* line 194: open(filepath, 'wb') cannot succeed on a directory
IsDirectoryPath(filepath) == filepath.name = <<>>

(***************************************************************************)
(* State.                                                                  *)
(***************************************************************************)
VARIABLES
  media_uris,           \* argument: the list of references
  cleanup_gcs,          \* argument
  organize_by_type,     \* argument
  GCS_AVAILABLE,        \* module global, line 17-21
  pc,                   \* position of download_media_async
  error,                \* the exception the call ended with, or "none"
  dirs,                 \* folders made so far ("" is download_dir)
  files,                \* local files: path -> the task that wrote each chunk
  i,                    \* the loop index of line 247
  download_tasks,       \* line 243: [url, filepath, i] per coroutine
  file_mapping,         \* line 244: [uri, filepath, i] per coroutine
  task,                 \* per coroutine: [st, off], its state and chunks written
  completed,            \* the tasks in the order they finished
  results,              \* line 290
  successful_downloads, \* line 293
  c,                    \* position of the cleanup loop of line 301
  iterations,           \* history: what each pass of the loop computed
  deletes,              \* history: the delete_gcs_file calls, in order
  fn_args,              \* a direct call of a module function: its arguments
  fn_result,            \* a direct call: the values returned, call by call
  model,                \* main.py: generate's and interactive's model
  aspect_ratio,         \* main.py: the value of the AspectRatio
  resolution,           \* main.py: the value of the Resolution
  number_of_videos,     \* main.py
  duration_seconds,     \* main.py
  extend_video_path,    \* main.py: NoPath or a video path
  wait_for_completion,  \* main.py
  video_choices,        \* main.py line 660, computed once in interactive
  duration_choices,     \* main.py line 677, computed once in interactive
  api_params,           \* main.py lines 448-465: what generate_videos got
  operation_done,       \* main.py line 491: getattr(operation, "done", False)
  elapsed,              \* main.py line 508: <<>> while the local is unbound
  clock                 \* seconds since start_time (main.py line 490)

vars ==
  << media_uris, cleanup_gcs, organize_by_type, GCS_AVAILABLE, pc, error, dirs,
     files, i, download_tasks, file_mapping, task, completed, results,
     successful_downloads, c, iterations, deletes, fn_args, fn_result,
     model, aspect_ratio, resolution, number_of_videos, duration_seconds,
     extend_video_path, wait_for_completion, video_choices, duration_choices,
     api_params, operation_done, elapsed, clock >>

\* the variables of generate and interactive (main.py)
gvars ==
  << model, aspect_ratio, resolution, number_of_videos, duration_seconds,
     extend_video_path, wait_for_completion, video_choices, duration_choices,
     api_params, operation_done, elapsed, clock >>

\* no video path: None, or the empty answer
NoPath == ""

\* generate_videos has not been called
NotSent == [sent |-> FALSE]

\* neither generate nor interactive is running
NoGenerate ==
  /\ model = ""
  /\ aspect_ratio = ""
  /\ resolution = ""
  /\ number_of_videos = 0
  /\ duration_seconds = 0
  /\ extend_video_path = NoPath
  /\ wait_for_completion = FALSE
  /\ video_choices = {}
  /\ duration_choices = {}
  /\ api_params = NotSent
  /\ operation_done = FALSE
  /\ elapsed = <<>>
  /\ clock = 0

\* the variables of a direct call of a module function
call == << fn_args, fn_result >>

\* no direct call is made
NoCall == [fn |-> "none"]

args == << media_uris, cleanup_gcs, organize_by_type, GCS_AVAILABLE >>

RefLists == UNION { [1..n -> RefPool] : n \in 0..MaxRefs }

Init ==
  /\ media_uris \in RefLists
  /\ cleanup_gcs \in BOOLEAN
  /\ organize_by_type \in BOOLEAN
  /\ GCS_AVAILABLE \in BOOLEAN
  /\ pc = "mkdir"
  /\ error = "none"
  /\ dirs = {}
  /\ files = <<>>
  /\ i = 1
  /\ download_tasks = <<>>
  /\ file_mapping = <<>>
  /\ task = <<>>
  /\ completed = <<>>
  /\ results = <<>>
  /\ successful_downloads = <<>>
  /\ c = 1
  /\ iterations = <<>>
  /\ deletes = <<>>
  /\ fn_args = NoCall
  /\ fn_result = <<>>
  /\ NoGenerate


(***************************************************************************)
(* Lines 218-240: the destination folders.  mkdir(exist_ok=True) either    *)
(* makes the folder or raises (the system refuses it); the exception       *)
(* leaves download_media_async.                                            *)
(***************************************************************************)
MakeDownloadDir ==
  /\ pc = "mkdir"
  /\ dirs' = dirs \cup {""}
  /\ pc' = IF organize_by_type THEN "folders" ELSE "loop"
  /\ UNCHANGED << args, call, gvars, error, files, i, download_tasks, file_mapping, task,
                  completed, results, successful_downloads, c, iterations,
                  deletes >>

\* a mutant of AfterMkdirError: the error is noted and the loop is entered
AfterMkdirErrorSwallowed == "loop"

\* lines 224-228: no try encloses the mkdir calls; an exception of one of
\* them leaves download_media_async
AfterMkdirError == "raised"

MakeDownloadDirFails ==
  /\ pc = "mkdir"
  /\ pc' = AfterMkdirError
  /\ error' = "FilesystemError"
  /\ UNCHANGED << args, call, gvars, dirs, files, i, download_tasks, file_mapping, task,
                  completed, results, successful_downloads, c, iterations,
                  deletes >>

\* lines 58-69, called at line 228
CreateMediaFolders ==
  /\ pc = "folders"
  /\ dirs' = dirs \cup Range(FolderOrder)
  /\ pc' = "loop"
  /\ UNCHANGED << args, call, gvars, error, files, i, download_tasks, file_mapping, task,
                  completed, results, successful_downloads, c, iterations,
                  deletes >>

\* the mkdir of the (made + 1)-th folder raises
CreateMediaFoldersFails ==
  /\ pc = "folders"
  /\ \E made \in 0..(Len(FolderOrder) - 1) :
       dirs' = dirs \cup { FolderOrder[x] : x \in 1..made }
  /\ pc' = AfterMkdirError
  /\ error' = "FilesystemError"
  /\ UNCHANGED << args, call, gvars, files, i, download_tasks, file_mapping, task,
                  completed, results, successful_downloads, c, iterations,
                  deletes >>

(***************************************************************************)
(* Lines 247-287: one pass of the loop over the references.  The loop has  *)
(* no await: the coroutines it makes do not start before gather.           *)
(***************************************************************************)
\* line 258: urlparse raises and the exception leaves the call
LoopRaise ==
  /\ pc = "loop" /\ i <= Len(media_uris)
  /\ ~IsGcsUri(media_uris[i])
  /\ UrlParseRaises(media_uris[i])
  /\ pc' = "raised"
  /\ error' = "ValueError"
  /\ UNCHANGED << args, call, gvars, dirs, files, i, download_tasks, file_mapping, task,
                  completed, results, successful_downloads, c, iterations,
                  deletes >>

\* lines 276-283: the signed URL is not obtained; continue
LoopContinue ==
  /\ pc = "loop" /\ i <= Len(media_uris)
  /\ IsGcsUri(media_uris[i])
  /\ \E issued \in BOOLEAN :
       LET uri        == media_uris[i]
           filename   == Filename(uri, i)
           filepath   == TargetPath(filename, organize_by_type)
           signed_url == convert_gcs_uri_to_signed_url(uri, GCS_AVAILABLE, issued)
       IN  /\ ~IsTruthy(signed_url)
           /\ iterations' = Append(iterations,
                [ filename |-> filename, filepath |-> filepath,
                  asked |-> ConvertAsksStorage(uri, GCS_AVAILABLE),
                  issued |-> ConvertAsksStorage(uri, GCS_AVAILABLE) /\ issued,
                  resolution |-> Resolution(uri, signed_url) ])
  /\ i' = i + 1
  /\ UNCHANGED << args, call, gvars, pc, error, dirs, files, download_tasks, file_mapping,
                  task, completed, results, successful_downloads, c, deletes >>

\* a mutant of NewCoroutine: the fetch is started as soon as it is made
NewRunningTask == [st |-> "requested", off |-> 0]

\* line 285: calling download_media_file makes a coroutine that has not
\* started
NewCoroutine == [st |-> "created", off |-> 0]

\* lines 247-287: the coroutine of the reference joins download_tasks
LoopAppend ==
  /\ pc = "loop" /\ i <= Len(media_uris)
  /\ IsGcsUri(media_uris[i]) \/ ~UrlParseRaises(media_uris[i])
  /\ \E issued \in BOOLEAN :
       LET uri        == media_uris[i]
           filename   == Filename(uri, i)
           filepath   == TargetPath(filename, organize_by_type)
           signed_url == convert_gcs_uri_to_signed_url(uri, GCS_AVAILABLE, issued)
           download_url == IF IsGcsUri(uri) THEN signed_url ELSE PlainUrl(uri)
       IN  /\ IsGcsUri(uri) => IsTruthy(signed_url)
           /\ download_tasks' = Append(download_tasks,
                [url |-> download_url, filepath |-> filepath, i |-> i])
           /\ file_mapping' = Append(file_mapping,
                [uri |-> uri, filepath |-> filepath, i |-> i])
           /\ task' = Append(task, NewCoroutine)
           /\ iterations' = Append(iterations,
                [ filename |-> filename, filepath |-> filepath,
                  asked |-> ConvertAsksStorage(uri, GCS_AVAILABLE),
                  issued |-> ConvertAsksStorage(uri, GCS_AVAILABLE) /\ issued,
                  resolution |-> Resolution(uri, signed_url) ])
  /\ i' = i + 1
  /\ UNCHANGED << args, call, gvars, pc, error, dirs, files, completed, results,
                  successful_downloads, c, deletes >>

(***************************************************************************)
(* Line 290: asyncio.gather.  Every coroutine becomes a task and runs to   *)
(* its first await (the request of line 177); the tasks then advance one   *)
(* at a time, in any order, each between two of its awaits.                *)
(***************************************************************************)
GatherLaunch ==
  /\ pc = "loop" /\ i > Len(media_uris)
  /\ task' = [t \in DOMAIN task |-> [st |-> "requested", off |-> 0]]
  /\ pc' = "gather"
  /\ UNCHANGED << args, call, gvars, error, dirs, files, i, download_tasks, file_mapping,
                  completed, results, successful_downloads, c, iterations,
                  deletes >>

\* a mutant of TaskFailed: the failure of one task cancels the unfinished ones
TaskFailedCancelsSiblings(ts, t) ==
  [s \in DOMAIN ts |->
     IF s = t \/ ts[s].st \notin {"ok", "failed"}
     THEN [st |-> "failed", off |-> 0]
     ELSE ts[s]]

\* lines 200-202: the exception is caught, the coroutine returns False.
\* The file handle, and its offset, are gone when the coroutine has returned.
TaskFailed(ts, t) == [ts EXCEPT ![t] = [st |-> "failed", off |-> 0]]

\* line 199: the coroutine returns True
TaskSucceeded(ts, t) == [ts EXCEPT ![t] = [st |-> "ok", off |-> 0]]

\* line 194: open(filepath, 'wb') makes the file or empties it
OpenTruncate(fs, filepath) ==
  [p \in DOMAIN fs \cup {filepath} |-> IF p = filepath THEN <<>> ELSE fs[p]]

\* line 196: file.write(chunk) at the offset of the writer's own handle
WriteChunk(content, off, t) ==
  [x \in 1..(IF Len(content) > off + 1 THEN Len(content) ELSE off + 1) |->
     IF x = off + 1 THEN t
     ELSE IF x <= Len(content) THEN content[x]
     ELSE 0]

\* line 177: the request fails before a response (network error)
FetchConnectionError(t) ==
  /\ pc = "gather" /\ task[t].st = "requested"
  /\ task' = TaskFailed(task, t)
  /\ completed' = Append(completed, t)
  /\ UNCHANGED << args, call, gvars, pc, error, dirs, files, i, download_tasks,
                  file_mapping, results, successful_downloads, c, iterations,
                  deletes >>

\* a mutant of FetchBadStatus: the file is opened before the status is
\* looked at
FetchBadStatusAfterOpen(t) ==
  /\ pc = "gather" /\ task[t].st = "requested"
  /\ files' = OpenTruncate(files, download_tasks[t].filepath)
  /\ task' = TaskFailed(task, t)
  /\ completed' = Append(completed, t)
  /\ UNCHANGED << args, call, gvars, pc, error, dirs, i, download_tasks,
                  file_mapping, results, successful_downloads, c, iterations,
                  deletes >>

\* line 178: raise_for_status on a non-success status
FetchBadStatus(t) ==
  /\ pc = "gather" /\ task[t].st = "requested"
  /\ task' = TaskFailed(task, t)
  /\ completed' = Append(completed, t)
  /\ UNCHANGED << args, call, gvars, pc, error, dirs, files, i, download_tasks,
                  file_mapping, results, successful_downloads, c, iterations,
                  deletes >>

\* lines 178-194: success status, and open(filepath, 'wb') raises: always
\* on a directory, otherwise when the system refuses the file
FetchOpenError(t) ==
  /\ pc = "gather" /\ task[t].st = "requested"
  /\ task' = TaskFailed(task, t)
  /\ completed' = Append(completed, t)
  /\ UNCHANGED << args, call, gvars, pc, error, dirs, files, i, download_tasks,
                  file_mapping, results, successful_downloads, c, iterations,
                  deletes >>

\* lines 184-190: success status, and the Progress display cannot start
\* because the display of another fetch is live on the shared console
\* (rich.errors.LiveError, in the releases of rich that allow one live
\* display at a time)
FetchProgressError(t) ==
  /\ pc = "gather" /\ task[t].st = "requested"
  /\ \E s \in DOMAIN task : s # t /\ task[s].st = "writing"
  /\ task' = TaskFailed(task, t)
  /\ completed' = Append(completed, t)
  /\ UNCHANGED << args, call, gvars, pc, error, dirs, files, i, download_tasks,
                  file_mapping, results, successful_downloads, c, iterations,
                  deletes >>

\* lines 178-195: success status, the file is opened and the body awaited
FetchOpen(t) ==
  /\ pc = "gather" /\ task[t].st = "requested"
  /\ ~IsDirectoryPath(download_tasks[t].filepath)
  /\ download_tasks[t].filepath.folder \in dirs
  /\ files' = OpenTruncate(files, download_tasks[t].filepath)
  /\ task' = [task EXCEPT ![t] = [st |-> "writing", off |-> 0]]
  /\ UNCHANGED << args, call, gvars, pc, error, dirs, i, download_tasks, file_mapping,
                  completed, results, successful_downloads, c, iterations,
                  deletes >>

\* lines 195-197: a chunk arrives and is written
FetchChunk(t) ==
  /\ pc = "gather" /\ task[t].st = "writing" /\ task[t].off < MaxChunks
  /\ LET filepath == download_tasks[t].filepath
     IN  files' = [files EXCEPT ![filepath] = WriteChunk(@, task[t].off, t)]
  /\ task' = [task EXCEPT ![t] = [st |-> "writing", off |-> @.off + 1]]
  /\ UNCHANGED << args, call, gvars, pc, error, dirs, i, download_tasks, file_mapping,
                  completed, results, successful_downloads, c, iterations,
                  deletes >>

\* lines 195-196: the body breaks off (network error) or the write fails
FetchChunkError(t) ==
  /\ pc = "gather" /\ task[t].st = "writing" /\ task[t].off < MaxChunks
  /\ task' = TaskFailed(task, t)
  /\ completed' = Append(completed, t)
  /\ UNCHANGED << args, call, gvars, pc, error, dirs, files, i, download_tasks,
                  file_mapping, results, successful_downloads, c, iterations,
                  deletes >>

\* lines 195-199: the body ends
FetchEnd(t) ==
  /\ pc = "gather" /\ task[t].st = "writing" /\ task[t].off = MaxChunks
  /\ task' = TaskSucceeded(task, t)
  /\ completed' = Append(completed, t)
  /\ UNCHANGED << args, call, gvars, pc, error, dirs, files, i, download_tasks,
                  file_mapping, results, successful_downloads, c, iterations,
                  deletes >>

\* a mutant of AllDone: gather returns when the first task has finished
AnyDone(ts) == \E t \in DOMAIN ts : ts[t].st \in {"ok", "failed"}

\* line 290: gather waits for every task
AllDone(ts) == \A t \in DOMAIN ts : ts[t].st \in {"ok", "failed"}

\* a mutant of GatherResults: the results in the order the tasks finished
ResultsInCompletionOrder(ts) ==
  [t \in DOMAIN ts |-> t <= Len(completed) /\ ts[completed[t]].st = "ok"]

\* a mutant of GatherResults: only the tasks that succeeded leave a result
ResultsOfSuccesses(ts) ==
  SelectSeq([t \in DOMAIN ts |-> ts[t].st = "ok"], LAMBDA r : r)

\* line 290: the results, in the order of download_tasks
GatherResults(ts) == [t \in DOMAIN ts |-> ts[t].st = "ok"]

\* a mutant of SuccessfulDownloads: every mapping is kept
AllMappings(mapping, res) == mapping

\* lines 293-295: the mappings whose result is true
RECURSIVE SuccessfulDownloads(_, _)
SuccessfulDownloads(mapping, res) ==
  IF mapping = <<>> \/ res = <<>> THEN <<>>
  ELSE (IF Head(res) THEN <<Head(mapping)>> ELSE <<>>)
         \o SuccessfulDownloads(Tail(mapping), Tail(res))

\* a mutant of EntersCleanup: the cleanup is entered whatever the flag
EntersCleanupAlways(cleanup, successes) == successes # <<>>

\* line 298: the cleanup loop is entered
EntersCleanup(cleanup, successes) == cleanup /\ successes # <<>>

\* lines 290-298: gather returns; the successes are filtered
GatherReturn ==
  /\ pc = "gather" /\ AllDone(task)
  /\ results' = GatherResults(task)
  /\ successful_downloads' = SuccessfulDownloads(file_mapping, results')
  /\ pc' = IF EntersCleanup(cleanup_gcs, successful_downloads')
           THEN "cleanup" ELSE "done"
  /\ UNCHANGED << args, call, gvars, error, dirs, files, i, download_tasks, file_mapping,
                  task, completed, c, iterations, deletes >>

(***************************************************************************)
(* Lines 301-309: the cleanup loop and the return.                         *)
(***************************************************************************)
\* a mutant of CleanupNext: the loop ends at the first delete that fails
CleanupStopsOnFailure(pos, deleted) ==
  IF deleted THEN pos + 1 ELSE Len(successful_downloads) + 1

\* a mutant of CleanupNext: a delete that fails is tried again
CleanupRetriesFailure(pos, deleted) == IF deleted THEN pos + 1 ELSE pos

\* lines 301-304: the for loop goes on to the next success, whatever
\* delete_gcs_file returned
CleanupNext(pos, deleted) == pos + 1

\* lines 82-110: what delete_gcs_file returns, given the answer of the
\* storage service when it is asked (an exception of the service is caught)
delete_gcs_file(gcs_uri, gcs_available, deleted) ==
  DeleteAsksStorage(gcs_uri, gcs_available) /\ deleted

\* lines 302-304: delete_gcs_file is called; deleted is the answer of the
\* storage service when it is asked
CleanupDelete ==
  /\ pc = "cleanup" /\ c <= Len(successful_downloads)
  /\ NeedsCleanup(successful_downloads[c].uri)
  /\ \E deleted \in BOOLEAN :
       LET uri == successful_downloads[c].uri
           ok  == delete_gcs_file(uri, GCS_AVAILABLE, deleted)
       IN  /\ deletes' = Append(deletes,
                [ i |-> successful_downloads[c].i,
                  uri |-> uri,
                  asked |-> DeleteAsksStorage(uri, GCS_AVAILABLE),
                  deleted |-> ok ])
           /\ c' = CleanupNext(c, ok)
  /\ UNCHANGED << args, call, gvars, pc, error, dirs, files, i, download_tasks,
                  file_mapping, task, completed, results, successful_downloads,
                  iterations >>

\* line 302: not a storage URI
CleanupSkip ==
  /\ pc = "cleanup" /\ c <= Len(successful_downloads)
  /\ ~NeedsCleanup(successful_downloads[c].uri)
  /\ c' = c + 1
  /\ UNCHANGED << args, call, gvars, pc, error, dirs, files, i, download_tasks,
                  file_mapping, task, completed, results, successful_downloads,
                  iterations, deletes >>

\* line 309
Return ==
  /\ pc = "cleanup" /\ c > Len(successful_downloads)
  /\ pc' = "done"
  /\ UNCHANGED << args, call, gvars, error, dirs, files, i, download_tasks, file_mapping,
                  task, completed, results, successful_downloads, c,
                  iterations, deletes >>

Next ==
  \/ MakeDownloadDir
  \/ MakeDownloadDirFails
  \/ CreateMediaFolders
  \/ CreateMediaFoldersFails
  \/ LoopRaise
  \/ LoopContinue
  \/ LoopAppend
  \/ GatherLaunch
  \/ \E t \in DOMAIN task : FetchConnectionError(t)
  \/ \E t \in DOMAIN task : FetchBadStatus(t)
  \/ \E t \in DOMAIN task : FetchProgressError(t)
  \/ \E t \in DOMAIN task : FetchOpenError(t)
  \/ \E t \in DOMAIN task : FetchOpen(t)
  \/ \E t \in DOMAIN task : FetchChunk(t)
  \/ \E t \in DOMAIN task : FetchChunkError(t)
  \/ \E t \in DOMAIN task : FetchEnd(t)
  \/ GatherReturn
  \/ CleanupDelete
  \/ CleanupSkip
  \/ Return

Spec == Init /\ [][Next]_vars

(***************************************************************************)
(* A second specification: one function of the module is called directly,  *)
(* get_media_type and convert_gcs_uri_to_signed_url once,                  *)
(* create_media_folders twice in a row on the same base_dir.  fn_args      *)
(* holds the function, its argument and, for create_media_folders, the     *)
(* state base_dir is in; fn_result holds what each call returned; dirs is  *)
(* the set of folders that exist.                                          *)
(***************************************************************************)
\* the forms of a character of the table: itself and, for a letter, its
\* upper-case forms
CaseForms(ch) ==
  IF ch \in Range(LowerCase)
  THEN {ch, UpperCase[CHOOSE x \in DOMAIN LowerCase : LowerCase[x] = ch]}
         \cup (IF ch = "k" THEN {KelvinSign} ELSE {})
  ELSE {ch}

\* an extension in every letter case
RECURSIVE CaseVariants(_)
CaseVariants(ext) ==
  IF ext = <<>> THEN {<<>>}
  ELSE { <<h>> \o t : h \in CaseForms(Head(ext)), t \in CaseVariants(Tail(ext)) }

TableExtensions == UNION { MEDIA_TYPES[t] : t \in Range(MediaTypeKeys) }

\* strings that are no extension of the table in any letter case
OtherStrings ==
  { <<>>, <<".">>, <<"m","p","4">>, <<".","m","p">>, <<".","m","p","4","x">>,
    <<".","t","x","t">>, <<".","M","P","4",".">>, <<".",".","p","n","g">>,
    <<".","j","p","e">>, <<".","P","D","F">>, <<" ",".","m","p","4">>,
    <<".","m","p","4"," ">>, <<".","m","p","/","4">> }

ExtensionInputs ==
  UNION { CaseVariants(ext) : ext \in TableExtensions } \cup OtherStrings

\* the states base_dir can be in when create_media_folders is called: the
\* folders that exist already, the names that something that is no folder
\* has, and whether base_dir lets entries be made
BaseDirStates ==
  { [existing |-> e, not_dirs |-> n, writable |-> w] :
      e \in SUBSET Range(FolderOrder), n \in SUBSET Range(FolderOrder),
      w \in BOOLEAN }

\* local paths for a summary printed directly: in a media folder and in
\* download_dir itself
SummaryPaths ==
  { [folder |-> "videos", name |-> <<"c","l","i","p",".","m","p","4">>],
    [folder |-> "images", name |-> <<"c",".","P","N","G">>],
    [folder |-> "", name |-> <<"c","l","i","p",".","m","p","4">>] }

SummaryDownloads ==
  UNION { [1..n -> { [uri |-> UrlClip, filepath |-> p, i |-> 0] :
                       p \in SummaryPaths }] : n \in 0..MaxCount }

InitCalls ==
  /\ media_uris = <<>>
  /\ cleanup_gcs = FALSE
  /\ organize_by_type = FALSE
  /\ GCS_AVAILABLE \in BOOLEAN
  /\ pc = "idle"
  /\ error = "none"
  /\ files = <<>>
  /\ i = 1
  /\ download_tasks = <<>>
  /\ file_mapping = <<>>
  /\ task = <<>>
  /\ completed = <<>>
  /\ results = <<>>
  /\ successful_downloads = <<>>
  /\ c = 1
  /\ iterations = <<>>
  /\ deletes = <<>>
  /\ fn_result = <<>>
  /\ NoGenerate
  /\ \/ /\ fn_args \in { [fn |-> "get_media_type", file_extension |-> e] :
                           e \in ExtensionInputs }
        /\ dirs = {}
     \/ /\ fn_args \in { [fn |-> "convert_gcs_uri_to_signed_url", gcs_uri |-> u] :
                           u \in RefPool }
        /\ dirs = {}
     \/ \E b \in BaseDirStates :
          /\ b.existing \cap b.not_dirs = {}
          /\ fn_args = [fn |-> "create_media_folders", base_dir |-> "",
                        not_dirs |-> b.not_dirs, writable |-> b.writable]
          /\ dirs = {""} \cup b.existing
     \/ /\ fn_args \in { [fn |-> "print_download_summary", downloads |-> d,
                          total_media |-> n, organized |-> o] :
                           d \in SummaryDownloads, n \in 0..MaxCount,
                           o \in BOOLEAN }
        /\ dirs = {}


\* lines 32-46
CallGetMediaType ==
  /\ pc = "idle" /\ fn_args.fn = "get_media_type" /\ fn_result = <<>>
  /\ fn_result' = <<get_media_type(fn_args.file_extension)>>
  /\ UNCHANGED << args, fn_args, gvars, pc, error, dirs, files, i, download_tasks,
                  file_mapping, task, completed, results, successful_downloads,
                  c, iterations, deletes >>

\* lines 113-160; issued is the answer of the storage service when it is
\* asked
CallConvert ==
  /\ pc = "idle" /\ fn_args.fn = "convert_gcs_uri_to_signed_url"
  /\ fn_result = <<>>
  /\ \E issued \in BOOLEAN :
       fn_result' =
         <<convert_gcs_uri_to_signed_url(fn_args.gcs_uri, GCS_AVAILABLE, issued)>>
  /\ UNCHANGED << args, fn_args, gvars, pc, error, dirs, files, i, download_tasks,
                  file_mapping, task, completed, results, successful_downloads,
                  c, iterations, deletes >>

\* lines 48-69: the first call, and the second
CallCreateMediaFolders ==
  /\ pc = "idle" /\ fn_args.fn = "create_media_folders" /\ Len(fn_result) < 2
  /\ LET out == MakeFolders(1, dirs, fn_args.not_dirs, fn_args.writable)
     IN  /\ dirs' = out.dirs
         /\ fn_result' = Append(fn_result,
              [ raised  |-> out.raised,
                folders |-> IF out.raised THEN {}
                            ELSE { <<t, create_media_folders[t]>> :
                                     t \in DOMAIN create_media_folders },
                before  |-> dirs ])
  /\ UNCHANGED << args, fn_args, gvars, pc, error, files, i, download_tasks,
                  file_mapping, task, completed, results, successful_downloads,
                  c, iterations, deletes >>

\* lines 343-381
CallPrintDownloadSummary ==
  /\ pc = "idle" /\ fn_args.fn = "print_download_summary" /\ fn_result = <<>>
  /\ fn_result' = <<print_download_summary(fn_args.downloads,
                      fn_args.total_media, fn_args.organized)>>
  /\ UNCHANGED << args, fn_args, gvars, pc, error, dirs, files, i, download_tasks,
                  file_mapping, task, completed, results, successful_downloads,
                  c, iterations, deletes >>

NextCalls ==
  \/ CallGetMediaType
  \/ CallConvert
  \/ CallCreateMediaFolders
  \/ CallPrintDownloadSummary


SpecCalls == InitCalls /\ [][NextCalls]_vars


(***************************************************************************)
(* Vocabulary of the properties.                                           *)
(***************************************************************************)
Returned == pc = "done"
PastFetchPhase == pc \in {"cleanup", "done"}
Finished(t) == task[t].st \in {"ok", "failed"}
InProgress(t) == task[t].st \in {"requested", "writing"}

\* the tasks made for the reference at position x of the input list
TasksOf(x) == { t \in DOMAIN download_tasks : download_tasks[t].i = x }
FetchStarted(x) == \E t \in TasksOf(x) : task[t].st # "created"
FetchSucceeded(x) == \E t \in TasksOf(x) : task[t].st = "ok"
FetchFailed(x) == \E t \in TasksOf(x) : task[t].st = "failed"
ResolutionFailed(x) ==
  x \in DOMAIN iterations /\ iterations[x].resolution = "failed"

\* the delete_gcs_file calls that reached the storage service
RemoteDeletes == SelectSeq(deletes, LAMBDA d : d.asked)

\* the positions of the input list, in order
Positions == [x \in 1..Len(media_uris) |-> x]

(***************************************************************************)
(* models_config.py: the registry of models and the validation of options. *)
(***************************************************************************)
Res720 == <<"7","2","0">>
Res1080 == <<"1","0","8","0">>
Res720p == <<"7","2","0","p">>
Res1080p == <<"1","0","8","0","p">>
Widescreen == "16:9"
Portrait == "9:16"

\* models_config.py lines 63-120: VIDEO_MODELS, the capabilities that the
\* validation and the CLI read
VIDEO_MODELS ==
  [ m \in {"veo2-001", "veo3-001", "veo3-preview"} |->
      IF m = "veo2-001"
      THEN [ model_id |-> m, api_model_name |-> "veo-2.0-generate-001",
             max_videos |-> 4,
             duration |-> [default |-> 8, options |-> <<5, 6, 7, 8>>],
             aspect_ratios |-> <<Widescreen, Portrait>>,
             resolutions |-> <<Res720p>>,
             supports_extend_video |-> TRUE ]
      ELSE [ model_id |-> m,
             api_model_name |-> IF m = "veo3-001" THEN "veo-3.0-generate-001"
                                ELSE "veo-3.0-generate-preview",
             max_videos |-> 4,
             duration |-> [default |-> 8, options |-> <<8>>],
             aspect_ratios |-> <<Widescreen>>,
             resolutions |-> <<Res720p, Res1080p>>,
             supports_extend_video |-> FALSE ] ]

\* models_config.py lines 147-150: IMAGE_MODELS is empty
ALL_MODELS == VIDEO_MODELS

\* what dict.get returns for a key that is absent
NoConfig == [model_id |-> "None"]


\* models_config.py lines 153-155
get_model_config(model_id) ==
  IF model_id \in DOMAIN ALL_MODELS THEN ALL_MODELS[model_id] ELSE NoConfig

\* str.endswith("p") and str.rstrip("p")
EndsWithP(s) == Len(s) > 0 /\ s[Len(s)] = "p"
RECURSIVE RStripP(_)
RStripP(s) == IF EndsWithP(s) THEN RStripP(SubSeq(s, 1, Len(s) - 1)) ELSE s

\* models_config.py lines 190-224: the corrections of validate_model_options
\* for a known video model, a function from option names to values
validate_model_options(model_id, options) ==
  LET caps == get_model_config(model_id)
      resolution_value_with_p ==
        IF ~EndsWithP(options.resolution)
        THEN options.resolution \o <<"p">> ELSE options.resolution
      wrong ==
        (IF options.number_of_videos > caps.max_videos
           THEN {"number_of_videos"} ELSE {})
        \cup (IF options.duration_seconds \notin Range(caps.duration.options)
                THEN {"duration_seconds"} ELSE {})
        \cup (IF options.aspect_ratio \notin Range(caps.aspect_ratios)
                THEN {"aspect_ratio"} ELSE {})
        \cup (IF resolution_value_with_p \notin Range(caps.resolutions)
                THEN {"resolution"} ELSE {})
  IN  [ o \in wrong |->
          IF o = "number_of_videos" THEN caps.max_videos
          ELSE IF o = "duration_seconds" THEN caps.duration.default
          ELSE IF o = "aspect_ratio" THEN caps.aspect_ratios[1]
          ELSE RStripP(caps.resolutions[1]) ]

\* model_manager.py lines 169-193: the options, with every correction put
\* in the place of the value it corrects
validate_and_correct_options(model_id, options) ==
  LET corrections == validate_model_options(model_id, options)
  IN  [ o \in DOMAIN options |->
          IF o \in DOMAIN corrections THEN corrections[o] ELSE options[o] ]

\* model_manager.py lines 101-114: the durations offered in interactive
\* mode, none when the model has one duration
get_duration_choices_for_interactive(model_id) ==
  LET options == get_model_config(model_id).duration.options
  IN  IF Len(options) = 1 THEN {} ELSE Range(options)

\* model_manager.py lines 130-144: the video counts offered in interactive
\* mode, none when the model makes one video
get_video_count_choices_for_interactive(model_id) ==
  LET max_videos == get_model_config(model_id).max_videos
  IN  IF max_videos = 1 THEN {} ELSE 1..max_videos

(***************************************************************************)
(* main.py: a third specification, the commands generate and interactive.  *)
(* pc is "review" in the review loop of interactive, "generate" when       *)
(* generate is entered, "poll" at the head of the polling loop, "result"   *)
(* after the loop, "finished" when generate has returned and "exit" when   *)
(* it has ended with typer.Exit; error tells why.  The prompt and the      *)
(* prompt enhancement are left out: nothing that is modelled reads them.   *)
(***************************************************************************)
\* main.py line 242: the default of --model
DefaultModel == "veo-001"

\* main.py line 492: time.sleep(5)
SleepSeconds == 5

\* main.py line 501: the timeout
TimeoutSeconds == 300

\* the clock stops counting here, two sleeps above the timeout: every time
\* above it is above the timeout too
ClockCap == 310

\* a video path that create_video_object accepts
VideoPath == "gs://b/v.mp4"

\* main.py lines 265-278: the values of --videos (min=1, max=4) and of
\* --duration (any integer)
VideosOptions == 1..4
DurationOptions == {5, 8, 9}

\* main.py lines 93-100: the values of the enums
AspectRatioValues == {Widescreen, Portrait}
ResolutionValues == {Res720, Res1080}

DownloadIdle ==
  /\ media_uris = <<>>
  /\ cleanup_gcs = FALSE
  /\ organize_by_type = FALSE
  /\ GCS_AVAILABLE = TRUE
  /\ error = "none"
  /\ dirs = {}
  /\ files = <<>>
  /\ i = 1
  /\ download_tasks = <<>>
  /\ file_mapping = <<>>
  /\ task = <<>>
  /\ completed = <<>>
  /\ results = <<>>
  /\ successful_downloads = <<>>
  /\ c = 1
  /\ iterations = <<>>
  /\ deletes = <<>>
  /\ fn_args = NoCall
  /\ fn_result = <<>>

\* the variables of the download and of the direct calls
dvars ==
  << args, call, dirs, files, i, download_tasks, file_mapping, task, completed,
     results, successful_downloads, c, iterations, deletes >>

\* generate is called from the command line with its options
InitGenerateCommand ==
  /\ pc = "generate"
  /\ model \in {DefaultModel} \cup DOMAIN ALL_MODELS
  /\ aspect_ratio \in AspectRatioValues
  /\ resolution \in ResolutionValues
  /\ number_of_videos \in VideosOptions
  /\ duration_seconds \in DurationOptions
  /\ extend_video_path \in {NoPath, VideoPath}
  /\ wait_for_completion \in BOOLEAN
  /\ video_choices = {}
  /\ duration_choices = {}

\* main.py lines 611-759: interactive has asked for the model and, for that
\* model, for the resolution, the number of videos, the duration and the
\* video to extend
InitInteractive ==
  /\ pc = "review"
  /\ model \in DOMAIN VIDEO_MODELS
  /\ aspect_ratio = Widescreen
  /\ resolution \in { RStripP(r) : r \in Range(get_model_config(model).resolutions) }
  /\ video_choices = get_video_count_choices_for_interactive(model)
  /\ number_of_videos \in (IF video_choices # {} THEN video_choices ELSE {1})
  /\ duration_choices = get_duration_choices_for_interactive(model)
  /\ duration_seconds \in
       (IF duration_choices # {} THEN duration_choices
        ELSE {get_model_config(model).duration.default})
  /\ extend_video_path \in
       (IF get_model_config(model).supports_extend_video
        THEN {NoPath, VideoPath} ELSE {NoPath})
  /\ wait_for_completion = TRUE

InitGenerate ==
  /\ DownloadIdle
  /\ api_params = NotSent
  /\ operation_done = FALSE
  /\ elapsed = <<>>
  /\ clock = 0
  /\ InitGenerateCommand \/ InitInteractive

\* main.py lines 844-857 and 931-953: the prompt or the enhancement is
\* changed
ReviewChangePromptOrEnhancement ==
  /\ pc = "review"
  /\ UNCHANGED vars

\* main.py lines 858-880: change_model
ReviewChangeModel ==
  /\ pc = "review"
  /\ \E new_model \in DOMAIN VIDEO_MODELS : model' = new_model
  /\ UNCHANGED << dvars, pc, error, aspect_ratio, resolution, number_of_videos,
                  duration_seconds, extend_video_path, wait_for_completion,
                  video_choices, duration_choices, api_params, operation_done,
                  elapsed, clock >>

\* main.py lines 881-912: change_resolution, among the resolutions of the
\* model that is selected
ReviewChangeResolution ==
  /\ pc = "review"
  /\ \E answer \in { RStripP(r) : r \in Range(get_model_config(model).resolutions) } :
       resolution' = IF answer = Res1080 THEN Res1080 ELSE Res720
  /\ UNCHANGED << dvars, pc, error, model, aspect_ratio, number_of_videos,
                  duration_seconds, extend_video_path, wait_for_completion,
                  video_choices, duration_choices, api_params, operation_done,
                  elapsed, clock >>

\* main.py lines 821-822 and 913-930: change_videos
ReviewChangeVideos ==
  /\ pc = "review"
  /\ Cardinality(video_choices) > 1
  /\ \E answer \in video_choices : number_of_videos' = answer
  /\ UNCHANGED << dvars, pc, error, model, aspect_ratio, resolution,
                  duration_seconds, extend_video_path, wait_for_completion,
                  video_choices, duration_choices, api_params, operation_done,
                  elapsed, clock >>

\* main.py lines 823-824 and 931-948: change_duration
ReviewChangeDuration ==
  /\ pc = "review"
  /\ Cardinality(duration_choices) > 1
  /\ \E answer \in duration_choices : duration_seconds' = answer
  /\ UNCHANGED << dvars, pc, error, model, aspect_ratio, resolution,
                  number_of_videos, extend_video_path, wait_for_completion,
                  video_choices, duration_choices, api_params, operation_done,
                  elapsed, clock >>

\* main.py lines 840-842: cancel
ReviewCancel ==
  /\ pc = "review"
  /\ pc' = "exit"
  /\ error' = "Cancelled"
  /\ UNCHANGED << dvars, gvars >>

\* main.py lines 838-839 and 981-996: generate is called with the settings
ReviewStartGeneration ==
  /\ pc = "review"
  /\ pc' = "generate"
  /\ UNCHANGED << dvars, error, gvars >>

\* main.py lines 343-352
GenerateUnknownModel ==
  /\ pc = "generate"
  /\ get_model_config(model) = NoConfig
  /\ pc' = "exit"
  /\ error' = "UnknownModel"
  /\ UNCHANGED << dvars, gvars >>

\* main.py lines 354-362
GenerateExtendUnsupported ==
  /\ pc = "generate"
  /\ get_model_config(model) # NoConfig
  /\ extend_video_path # NoPath
  /\ ~get_model_config(model).supports_extend_video
  /\ pc' = "exit"
  /\ error' = "ExtendUnsupported"
  /\ UNCHANGED << dvars, gvars >>

\* the model is known and can extend a video if one is given
GenerateValidated ==
  /\ pc = "generate"
  /\ get_model_config(model) # NoConfig
  /\ extend_video_path # NoPath => get_model_config(model).supports_extend_video

\* main.py lines 364-379: the video cannot be read, or no bucket is set
GenerateSetupFails ==
  /\ GenerateValidated
  /\ pc' = "exit"
  /\ error' = "SetupError"
  /\ UNCHANGED << dvars, gvars >>

\* main.py lines 430-467 and 569-571: an exception before the operation
\* exists, of generate_videos for one
GenerateApiFails ==
  /\ GenerateValidated
  /\ pc' = "exit"
  /\ error' = "ApiError"
  /\ UNCHANGED << dvars, gvars >>

\* main.py lines 381-394: the options after the corrections that generate
\* takes over
AppliedCorrections ==
  LET corrected_options ==
        validate_and_correct_options(model,
          [ number_of_videos |-> number_of_videos,
            duration_seconds |-> duration_seconds,
            aspect_ratio     |-> aspect_ratio,
            resolution       |-> resolution ])
  IN  [ number_of_videos |-> corrected_options.number_of_videos,
        duration_seconds |-> corrected_options.duration_seconds,
        aspect_ratio     |-> aspect_ratio,
        resolution       |-> resolution ]

\* main.py lines 381-490: the options are corrected, generate_videos is
\* called and returns an operation
GenerateCallApi ==
  /\ GenerateValidated
  /\ number_of_videos' = AppliedCorrections.number_of_videos
  /\ duration_seconds' = AppliedCorrections.duration_seconds
  /\ api_params' =
       [ sent             |-> TRUE,
         model            |-> get_model_config(model).api_model_name,
         aspect_ratio     |-> AppliedCorrections.aspect_ratio,
         number_of_videos |-> AppliedCorrections.number_of_videos,
         duration_seconds |-> AppliedCorrections.duration_seconds,
         video            |-> extend_video_path ]
  /\ operation_done' \in BOOLEAN
  /\ pc' = IF wait_for_completion THEN "poll" ELSE "finished"
  /\ UNCHANGED << dvars, error, model, aspect_ratio, resolution,
                  extend_video_path, wait_for_completion, video_choices,
                  duration_choices, elapsed, clock >>

\* main.py line 492: the clock after time.sleep(5)
Slept == IF clock + SleepSeconds > ClockCap THEN ClockCap ELSE clock + SleepSeconds

\* main.py line 491: the operation is done, the loop is left
PollExit ==
  /\ pc = "poll" /\ operation_done
  /\ pc' = "result"
  /\ UNCHANGED << dvars, error, gvars >>

\* main.py lines 492-495 and 507-517: the refresh returns
PollRefreshed ==
  /\ pc = "poll" /\ ~operation_done
  /\ clock' = Slept
  /\ operation_done' \in BOOLEAN
  /\ elapsed' = <<clock'>>
  /\ UNCHANGED << dvars, pc, error, model, aspect_ratio, resolution,
                  number_of_videos, duration_seconds, extend_video_path,
                  wait_for_completion, video_choices, duration_choices,
                  api_params >>

\* main.py lines 496-501 and 569-571: the refresh raises and elapsed is
\* read before it has a value; the UnboundLocalError ends generate
PollRefreshFailsUnbound ==
  /\ pc = "poll" /\ ~operation_done
  /\ elapsed = <<>>
  /\ clock' = Slept
  /\ pc' = "exit"
  /\ error' = "UnboundLocalError"
  /\ UNCHANGED << dvars, model, aspect_ratio, resolution, number_of_videos,
                  duration_seconds, extend_video_path, wait_for_completion,
                  video_choices, duration_choices, api_params, operation_done,
                  elapsed >>

\* main.py lines 496-505: the refresh raises after the timeout; break
PollRefreshFailsTimeout ==
  /\ pc = "poll" /\ ~operation_done
  /\ elapsed # <<>> /\ elapsed[1] > TimeoutSeconds
  /\ clock' = Slept
  /\ pc' = "result"
  /\ UNCHANGED << dvars, error, model, aspect_ratio, resolution,
                  number_of_videos, duration_seconds, extend_video_path,
                  wait_for_completion, video_choices, duration_choices,
                  api_params, operation_done, elapsed >>

\* main.py lines 496-517: the refresh raises before the timeout; the loop
\* goes on
PollRefreshFailsGoesOn ==
  /\ pc = "poll" /\ ~operation_done
  /\ elapsed # <<>> /\ elapsed[1] <= TimeoutSeconds
  /\ clock' = Slept
  /\ elapsed' = <<clock'>>
  /\ UNCHANGED << dvars, pc, error, model, aspect_ratio, resolution,
                  number_of_videos, duration_seconds, extend_video_path,
                  wait_for_completion, video_choices, duration_choices,
                  api_params, operation_done >>

\* main.py lines 519-558: the result is shown (and downloaded)
GenerateResult ==
  /\ pc = "result"
  /\ pc' = "finished"
  /\ UNCHANGED << dvars, error, gvars >>

NextGenerate ==
  \/ ReviewChangePromptOrEnhancement
  \/ ReviewChangeModel
  \/ ReviewChangeResolution
  \/ ReviewChangeVideos
  \/ ReviewChangeDuration
  \/ ReviewCancel
  \/ ReviewStartGeneration
  \/ GenerateUnknownModel
  \/ GenerateExtendUnsupported
  \/ GenerateSetupFails
  \/ GenerateApiFails
  \/ GenerateCallApi
  \/ PollExit
  \/ PollRefreshed
  \/ PollRefreshFailsUnbound
  \/ PollRefreshFailsTimeout
  \/ PollRefreshFailsGoesOn
  \/ GenerateResult

SpecGenerate == InitGenerate /\ [][NextGenerate]_vars

(***************************************************************************)
(* C1: when download_media_async returns, the returned list is exactly the *)
(* (reference, local path) pairs of the references whose fetch succeeded,  *)
(* in the order of the input list, whatever the order in which the         *)
(* fetches completed.                                                      *)
(***************************************************************************)
ExpectedSuccesses ==
  LET sel == SelectSeq(Positions, FetchSucceeded)
  IN  [y \in DOMAIN sel |->
        [ uri      |-> media_uris[sel[y]],
          filepath |-> download_tasks[CHOOSE t \in TasksOf(sel[y]) : TRUE].filepath,
          i        |-> sel[y] ]]

C1_ReturnsSuccessesInInputOrder ==
  Returned => successful_downloads = ExpectedSuccesses

\* both fetches succeed, the second before the first
C1_Witness ==
  /\ Returned
  /\ Len(task) = 2
  /\ completed = <<2, 1>>
  /\ task[1].st = "ok" /\ task[2].st = "ok"
  /\ Len(successful_downloads) = 2
  /\ successful_downloads[1].i = 1 /\ successful_downloads[2].i = 2

C3_DeletesOnlyFetchedStorageUris ==
  \A d \in DOMAIN RemoteDeletes :
    /\ RemoteDeletes[d].uri = media_uris[RemoteDeletes[d].i]
    /\ IsGcsUri(media_uris[RemoteDeletes[d].i])
    /\ FetchSucceeded(RemoteDeletes[d].i)

\* a plain URL and a storage URI both succeed: one delete, for the storage URI
C3_Witness ==
  /\ Returned
  /\ media_uris = <<UrlClip, GsImageX>>
  /\ FetchSucceeded(1) /\ FetchSucceeded(2)
  /\ Len(RemoteDeletes) = 1
  /\ RemoteDeletes[1].i = 2

(***************************************************************************)
(* C4: the step in which a fetch fails changes the state of no other       *)
(* fetch, what a fetch has returned stays, and the result gather records   *)
(* for each fetch is that fetch's own success or failure.                  *)
(***************************************************************************)
C4_FailureStep ==
  \A t \in DOMAIN task :
    (InProgress(t) /\ t \in DOMAIN task' /\ task'[t].st = "failed") =>
      \A s \in DOMAIN task : s # t => (s \in DOMAIN task' /\ task'[s] = task[s])

C4_ResultStays ==
  \A t \in DOMAIN task :
    Finished(t) => (t \in DOMAIN task' /\ task'[t] = task[t])

C4_OwnResult ==
  PastFetchPhase =>
    /\ DOMAIN results = DOMAIN task
    /\ \A t \in DOMAIN task : Finished(t) /\ results[t] = (task[t].st = "ok")

C4_FailureIsolated ==
  /\ [][C4_FailureStep /\ C4_ResultStays]_vars
  /\ []C4_OwnResult

\* the first fetch fails while the second is under way; the second succeeds
C4_Witness ==
  /\ Returned
  /\ Len(task) = 2
  /\ completed = <<1, 2>>
  /\ results = <<FALSE, TRUE>>
  /\ task[1].st = "failed" /\ task[2].st = "ok"

(***************************************************************************)
(* C5: no fetch starts before gather and then all start together; past     *)
(* the fetch phase, and when the call has ended, no fetch is in progress.  *)
(***************************************************************************)
C5_JoinAll ==
  /\ \A t, s \in DOMAIN task : (task[t].st = "created") <=> (task[s].st = "created")
  /\ pc \in {"loop", "raised"} => \A t \in DOMAIN task : task[t].st = "created"
  /\ pc = "gather" => \A t \in DOMAIN task : task[t].st # "created"
  /\ PastFetchPhase => \A t \in DOMAIN task : Finished(t)

\* two fetches were under way at the same time and the call is past gather
C5_Witness ==
  /\ pc = "cleanup"
  /\ Len(task) = 2
  /\ Finished(1) /\ Finished(2)
  /\ completed = <<2, 1>>


(***************************************************************************)
(* C6: no two references of a batch have the same target path, so that no  *)
(* two of them ever have the same file open for writing at the same time.  *)
(***************************************************************************)
C6_DistinctTargetFiles ==
  \A t, s \in DOMAIN download_tasks :
    media_uris[download_tasks[t].i] # media_uris[download_tasks[s].i] =>
      /\ download_tasks[t].filepath # download_tasks[s].filepath
      /\ ~(/\ task[t].st = "writing" /\ task[s].st = "writing"
           /\ download_tasks[t].filepath = download_tasks[s].filepath)

(***************************************************************************)
(* C7: once the destination folders are made, download_media_async does    *)
(* not end with an exception: the only exception that ends it is the one   *)
(* of the folder preparation.                                              *)
(***************************************************************************)
C7_NoExceptionOncePrepared ==
  pc = "raised" => error = "FilesystemError"

(***************************************************************************)
(* C8 as stated: past the fetch phase, the number of outcomes the          *)
(* orchestrator holds equals the number of input references.               *)
(***************************************************************************)
C8_OutcomePerReference ==
  PastFetchPhase => Len(results) = Len(media_uris)

(***************************************************************************)
(* C8 as amended: the orchestrator holds one coroutine and one mapping per *)
(* reference of the list passed so far whose resolution did not fail, and  *)
(* past the fetch phase one result per such reference; the number equals   *)
(* the number of input references exactly when no resolution failed.       *)
(***************************************************************************)
ResolvedCount == Cardinality({ x \in DOMAIN iterations : ~ResolutionFailed(x) })

C8_OutcomePerResolvedReference ==
  /\ Len(download_tasks) = ResolvedCount
  /\ Len(file_mapping) = ResolvedCount
  /\ Len(task) = ResolvedCount
  /\ PastFetchPhase =>
       /\ Len(results) = ResolvedCount
       /\ Len(successful_downloads) <= Len(results)
       /\ (Len(results) = Len(media_uris)) <=>
            (\A x \in DOMAIN iterations : ~ResolutionFailed(x))

\* the first reference fails resolution, the fetch of the second fails:
\* one outcome for two references, and no success
C8_Witness ==
  /\ Returned
  /\ Len(media_uris) = 2
  /\ ResolutionFailed(1)
  /\ FetchFailed(2)
  /\ Len(results) = 1
  /\ successful_downloads = <<>>

(***************************************************************************)
(* C9: the filename of the reference at position x is the final path       *)
(* segment of the storage URI or of the URL path, it is media_x whenever   *)
(* that segment is empty, and it is never empty.                           *)
(***************************************************************************)
\* the final path segment of a reference: of the object path of a storage
\* URI, of the path of a URL
FinalSegment(uri) ==
  IF IsGcsUri(uri)
  THEN IF Len(GcsPathParts(uri)) > 1 THEN PathName(GcsPathParts(uri)[2]) ELSE <<>>
  ELSE PathName(UrlPath(uri))

C9_FilenameNeverEmpty ==
  \A x \in DOMAIN iterations :
    /\ iterations[x].filename # <<>>
    /\ FinalSegment(media_uris[x]) = <<>> =>
         iterations[x].filename = MediaPrefix \o IntToStr(x)
    /\ FinalSegment(media_uris[x]) # <<>> =>
         iterations[x].filename = FinalSegment(media_uris[x])

(***************************************************************************)
(* C10 as stated: with organize_by_type, a plain URL with filename         *)
(* clip.mp4 that was fetched is stored at <base>/video/clip.mp4, and every *)
(* fetched file is under video, image, audio or unknown.                   *)
(***************************************************************************)
ClipMp4 == <<"c","l","i","p",".","m","p","4">>

C10_StoredUnderSingularFolder ==
  (Returned /\ organize_by_type) =>
    \A y \in DOMAIN successful_downloads :
      LET d == successful_downloads[y]
      IN  /\ d.filepath.folder \in {"video", "image", "audio", "unknown"}
          /\ (~IsGcsUri(d.uri) /\ d.filepath.name = ClipMp4) =>
               d.filepath = [folder |-> "video", name |-> ClipMp4]

(***************************************************************************)
(* C10 as amended: with organize_by_type, a plain URL with filename        *)
(* clip.mp4 that was fetched is stored at <base>/videos/clip.mp4, and      *)
(* every fetched file is stored under the folder videos, images or audios  *)
(* whose extension set holds its lower-cased extension, or under unknown   *)
(* when none does.                                                         *)
(***************************************************************************)
C10_StoredUnderCategoryFolder ==
  (Returned /\ organize_by_type) =>
    \A y \in DOMAIN successful_downloads :
      LET d   == successful_downloads[y]
          ext == Lower(PathSuffix(d.filepath.name))
      IN  /\ d.filepath \in DOMAIN files
          /\ d.filepath.folder \in dirs
          /\ d.filepath.name = iterations[d.i].filename
          /\ \/ /\ d.filepath.folder \in {"videos", "images", "audios"}
                /\ ext \in MEDIA_TYPES[d.filepath.folder]
             \/ /\ d.filepath.folder = "unknown"
                /\ \A k \in DOMAIN MEDIA_TYPES : ext \notin MEDIA_TYPES[k]
          /\ (~IsGcsUri(d.uri) /\ d.filepath.name = ClipMp4) =>
               d.filepath = [folder |-> "videos", name |-> ClipMp4]

\* http://h/clip.mp4 was fetched into videos/clip.mp4
C10_Witness ==
  /\ Returned /\ organize_by_type
  /\ media_uris = <<UrlClip>>
  /\ successful_downloads =
       << [ uri |-> UrlClip, i |-> 1,
            filepath |-> [folder |-> "videos", name |-> ClipMp4] ] >>
  /\ [folder |-> "videos", name |-> ClipMp4] \in DOMAIN files


(***************************************************************************)
(* C11: with organize_by_type false, as in every call through              *)
(* download_videos, every target path is <download_dir>/<filename>         *)
(* whatever the extension, every file written is directly in download_dir, *)
(* and no sub-folder of download_dir is made.                              *)
(***************************************************************************)
C11_FlatLayout ==
  (organize_by_type = download_videos_organize_by_type) =>
    /\ dirs \subseteq {""}
    /\ \A x \in DOMAIN iterations :
         iterations[x].filepath = [folder |-> "", name |-> iterations[x].filename]
    /\ \A t \in DOMAIN download_tasks : download_tasks[t].filepath.folder = ""
    /\ \A p \in DOMAIN files : p.folder = ""

\* an image and a video were both fetched into download_dir itself
C11_Witness ==
  /\ Returned /\ ~organize_by_type
  /\ media_uris = <<GsImageX, UrlClip>>
  /\ Len(successful_downloads) = 2
  /\ successful_downloads[2].filepath = [folder |-> "", name |-> ClipMp4]
  /\ DOMAIN files =
       { [folder |-> "", name |-> ClipMp4],
         [folder |-> "", name |-> <<"c", ".", "P", "N", "G">>] }
  /\ dirs = {""}

(***************************************************************************)
(* C12: a delete that fails for one success stops no delete attempt for a  *)
(* later success, and the list that is returned is the list of successes   *)
(* as it was before the cleanup: delete_gcs_file is called once for every  *)
(* success that is a storage URI, in order, whatever the earlier calls     *)
(* returned.                                                               *)
(***************************************************************************)
\* the successes passed by the cleanup loop that are storage URIs
CleanedUp ==
  SelectSeq(SubSeq(successful_downloads, 1, c - 1), LAMBDA s : NeedsCleanup(s.uri))

C12_DeleteFailureIsLocal ==
  /\ PastFetchPhase => successful_downloads = ExpectedSuccesses
  /\ pc = "cleanup" =>
       /\ c <= Len(successful_downloads) + 1
       /\ Len(deletes) = Len(CleanedUp)
       /\ \A d \in DOMAIN deletes : deletes[d].i = CleanedUp[d].i
  /\ (Returned /\ cleanup_gcs) =>
       /\ c = Len(successful_downloads) + 1
       /\ Len(deletes) = Len(CleanedUp)
       /\ \A d \in DOMAIN deletes : deletes[d].i = CleanedUp[d].i

\* the delete of the first success fails, the second success is deleted,
\* and both are returned
C12_Witness ==
  /\ Returned
  /\ media_uris = <<GsImageX, GsImageY>>
  /\ Len(successful_downloads) = 2
  /\ Len(deletes) = 2
  /\ deletes[1].asked /\ ~deletes[1].deleted
  /\ deletes[2].asked /\ deletes[2].deleted

(***************************************************************************)
(* C13: when the making of download_dir or of a media folder fails, the    *)
(* call ends with that error and nothing else has been done: no signed URL *)
(* was asked for, no fetch was made or started, no file was written and no *)
(* delete was asked for.  Nothing of this is done before the folders are   *)
(* made either.                                                            *)
(***************************************************************************)
NothingTouched ==
  /\ iterations = <<>>
  /\ download_tasks = <<>> /\ file_mapping = <<>> /\ task = <<>>
  /\ completed = <<>> /\ results = <<>> /\ successful_downloads = <<>>
  /\ DOMAIN files = {}
  /\ deletes = <<>>

C13_FolderErrorAbortsFirst ==
  /\ error = "FilesystemError" => (pc = "raised" /\ NothingTouched)
  /\ pc \in {"mkdir", "folders"} => NothingTouched

\* the second media folder cannot be made, for a batch with a storage URI
\* and cleanup asked for
C13_Witness ==
  /\ pc = "raised" /\ error = "FilesystemError"
  /\ organize_by_type /\ cleanup_gcs /\ GCS_AVAILABLE
  /\ media_uris = <<GsImageX, UrlClip>>
  /\ dirs = {"", FolderOrder[1]}
  /\ NothingTouched

(***************************************************************************)
(* C14: the signed URLs are asked for one reference at a time, in the      *)
(* order of the input list, while the loop runs; as long as the loop runs  *)
(* no fetch has started, and once a fetch has started the loop has passed  *)
(* every reference, so that no signed URL is asked for while a fetch runs. *)
(***************************************************************************)
C14_IssuanceBeforeFetches ==
  /\ pc = "loop" =>
       /\ Len(iterations) = i - 1
       /\ \A t \in DOMAIN task : task[t].st = "created"
  /\ (\E t \in DOMAIN task : task[t].st # "created") =>
       /\ pc \in {"gather", "cleanup", "done"}
       /\ Len(iterations) = Len(media_uris)
  /\ \A x \in DOMAIN iterations :
       /\ x <= Len(media_uris)
       /\ iterations[x].asked => IsGcsUri(media_uris[x])
       /\ iterations[x].issued => iterations[x].asked
  /\ \A t \in DOMAIN download_tasks :
       /\ file_mapping[t].uri = media_uris[download_tasks[t].i]
       /\ \A s \in DOMAIN download_tasks :
            s < t => download_tasks[s].i < download_tasks[t].i

\* two signed URLs were issued, and then both fetches were started
C14_Witness ==
  /\ pc = "gather"
  /\ media_uris = <<GsImageY, GsImageX>>
  /\ iterations[1].issued /\ iterations[2].issued
  /\ download_tasks[1].url = SignedUrl(GsImageY)
  /\ download_tasks[2].url = SignedUrl(GsImageX)
  /\ task[1].st = "writing" /\ task[2].st = "requested"

(***************************************************************************)
(* C15: every item of the input list is resolved at most once, has at most *)
(* one fetch, which ends at most once, and has at most one delete call; a  *)
(* resolution, a fetch or a delete that failed is not tried again.         *)
(***************************************************************************)
C15_AtMostOnce ==
  /\ Len(iterations) <= Len(media_uris)
  /\ \A x \in 1..Len(media_uris) : Cardinality(TasksOf(x)) <= 1
  /\ Len(completed) <= Len(task)
  /\ \A a, b \in DOMAIN completed : completed[a] = completed[b] => a = b
  /\ \A d, e \in DOMAIN deletes : deletes[d].i = deletes[e].i => d = e

\* the fetch of the second reference failed and the delete of the first
\* failed; the call returned with one fetch each and one delete call
C15_Witness ==
  /\ Returned
  /\ media_uris = <<GsImageX, UrlClip>>
  /\ FetchSucceeded(1) /\ FetchFailed(2)
  /\ Len(task) = 2 /\ Len(completed) = 2
  /\ Len(deletes) = 1 /\ deletes[1].asked /\ ~deletes[1].deleted

(***************************************************************************)
(* C16: with cleanup_gcs false, delete_gcs_file is never called: no delete *)
(* is asked of the storage service at any point of the call.               *)
(***************************************************************************)
C16_NoCleanupNoDelete ==
  ~cleanup_gcs => (deletes = <<>> /\ pc # "cleanup")

\* a storage URI was fetched and returned, and nothing was deleted
C16_Witness ==
  /\ Returned /\ ~cleanup_gcs /\ GCS_AVAILABLE
  /\ media_uris = <<GsImageX>>
  /\ FetchSucceeded(1)
  /\ Len(successful_downloads) = 1
  /\ deletes = <<>>

IsCaseVariant(s, ext) ==
  Len(s) = Len(ext) /\ \A x \in DOMAIN s : s[x] \in CaseForms(ext[x])

\* the media type under which the table has s in some letter case, else
\* 'unknown'
CategoryOf(s) ==
  LET hits == { t \in Range(MediaTypeKeys) :
                  \E ext \in MEDIA_TYPES[t] : IsCaseVariant(s, ext) }
  IN  IF hits = {} THEN "unknown" ELSE CHOOSE t \in hits : TRUE

(***************************************************************************)
(* C17: get_media_type returns, for an extension of the table in any       *)
(* letter case, the media type that has the extension, and 'unknown' for   *)
(* every other string, the empty string included; it returns for every     *)
(* string.                                                                 *)
(***************************************************************************)
C17_CaseInsensitiveTotal ==
  fn_args.fn = "get_media_type" =>
    /\ get_media_type(fn_args.file_extension) \in Range(FolderOrder)
    /\ fn_result # <<>> =>
         /\ fn_result[1] = CategoryOf(fn_args.file_extension)
         /\ fn_args.file_extension \in OtherStrings => fn_result[1] = "unknown"

\* .WeBm is a video
C17_Witness ==
  /\ fn_args.fn = "get_media_type"
  /\ fn_args.file_extension = <<".","W","e","B","m">>
  /\ fn_result = <<"videos">>

(***************************************************************************)
(* C18: when create_media_folders is called twice in a row on the same     *)
(* base_dir, the second call ends as the first did; when the first call    *)
(* returned, the second raises nothing and returns the same dict, every    *)
(* folder of the dict exists, and in every case the second call leaves the *)
(* folders as it found them.                                               *)
(***************************************************************************)
C18_FoldersIdempotent ==
  (fn_args.fn = "create_media_folders" /\ Len(fn_result) = 2) =>
    /\ fn_result[2].raised = fn_result[1].raised
    /\ fn_result[2].folders = fn_result[1].folders
    /\ dirs = fn_result[2].before
    /\ ~fn_result[1].raised =>
         /\ ~fn_result[2].raised
         /\ Range(FolderOrder) \subseteq dirs
         /\ fn_result[2].folders =
              { <<t, t>> : t \in Range(FolderOrder) }

\* the first call made the four folders in an empty base_dir, the second
\* call returned too
C18_Witness ==
  /\ fn_args.fn = "create_media_folders"
  /\ Len(fn_result) = 2
  /\ fn_result[1].before = {""}
  /\ ~fn_result[1].raised /\ ~fn_result[2].raised
  /\ fn_result[2].before = {""} \cup Range(FolderOrder)
  /\ dirs = {""} \cup Range(FolderOrder)

(***************************************************************************)
(* C19: convert_gcs_uri_to_signed_url returns a reference that does not    *)
(* start with gs:// as it is, whether or not the storage client library    *)
(* is available.                                                           *)
(***************************************************************************)
C19_PlainUrlUnchanged ==
  ( /\ fn_args.fn = "convert_gcs_uri_to_signed_url"
    /\ fn_result # <<>>
    /\ ~IsGcsUri(fn_args.gcs_uri) ) =>
      fn_result[1] = PlainUrl(fn_args.gcs_uri)

(***************************************************************************)
(* C21: the status of the summary is 'all successful' exactly when the     *)
(* number of downloads equals the number of media attempted, 'partial'     *)
(* when the number of downloads is above 0 and below that number, and      *)
(* 'all failed' when it is 0 and media were attempted.                     *)
(***************************************************************************)
C21_StatusByCounts ==
  (fn_args.fn = "print_download_summary" /\ fn_result # <<>>) =>
    LET success_count == Len(fn_args.downloads)
        total_count   == fn_args.total_media
        status        == fn_result[1].status
    IN  /\ (status = AllSuccessful) <=> (success_count = total_count)
        /\ (0 < success_count /\ success_count < total_count) =>
             status = PartialSuccess
        /\ (success_count = 0 /\ total_count > 0) => status = AllFailed

\* two downloads of three media: partial
C21_Witness ==
  /\ fn_args.fn = "print_download_summary"
  /\ Len(fn_args.downloads) = 2 /\ fn_args.total_media = 3
  /\ fn_result # <<>>
  /\ fn_result[1].status = PartialSuccess

(***************************************************************************)
(* C22: the summary of a call with organize_by_type, printed with          *)
(* organized true, lists every local path that is returned exactly once,   *)
(* under the media type that is the name of the folder the file is in,     *)
(* and that media type is get_media_type of the extension of the file.     *)
(***************************************************************************)
C22_ListedOnceUnderOwnType ==
  (Returned /\ organize_by_type) =>
    LET listed ==
          print_download_summary(successful_downloads, Len(media_uris), TRUE).listed
    IN  \A s \in DOMAIN successful_downloads :
          LET local_path == successful_downloads[s].filepath
              lines == { y \in DOMAIN listed : listed[y].filepath = local_path }
          IN  /\ Cardinality(lines) = 1
              /\ \A y \in lines :
                   /\ listed[y].media_type = local_path.folder
                   /\ listed[y].media_type =
                        get_media_type(Lower(PathSuffix(local_path.name)))

\* the content a file has when the fetch t alone wrote all of it
WrittenBy(t) == [x \in 1..MaxChunks |-> t]

(***************************************************************************)
(* C23: a remote object is deleted only when a local file exists whose     *)
(* content was written entirely by the fetch of that object; two storage   *)
(* URIs with the same final path segment are never both deleted while one  *)
(* local file holds the data.                                              *)
(***************************************************************************)
C23_DeletedOnlyWithOwnFile ==
  /\ \A d \in DOMAIN deletes :
       deletes[d].deleted =>
         \E t \in TasksOf(deletes[d].i) :
           /\ download_tasks[t].filepath \in DOMAIN files
           /\ files[download_tasks[t].filepath] = WrittenBy(t)
  /\ \A d, e \in DOMAIN deletes :
       (d # e /\ deletes[d].deleted /\ deletes[e].deleted) =>
         \A t \in TasksOf(deletes[d].i), s \in TasksOf(deletes[e].i) :
           download_tasks[t].filepath # download_tasks[s].filepath

\* the place in the returned list of the success that a delete call is for
PlaceOf(d) ==
  CHOOSE s \in DOMAIN successful_downloads :
    successful_downloads[s].i = deletes[d].i

(***************************************************************************)
(* C24: no delete is asked for while a fetch of the batch is running: the  *)
(* first delete comes after gather has returned, when every fetch has      *)
(* succeeded or failed, and the deletes are asked for one after the other, *)
(* in the order of the returned list.                                      *)
(***************************************************************************)
C24_DeletesAfterAllFetches ==
  /\ ~PastFetchPhase => deletes = <<>>
  /\ (deletes # <<>> \/ pc = "cleanup") =>
       /\ \A t \in DOMAIN task : Finished(t)
       /\ Len(results) = Len(task)
  /\ pc = "cleanup" => Len(deletes) <= c - 1
  /\ \A d \in DOMAIN deletes :
       /\ \E s \in DOMAIN successful_downloads :
            successful_downloads[s].i = deletes[d].i
       /\ \A e \in DOMAIN deletes : d < e => PlaceOf(d) < PlaceOf(e)

\* the second fetch ended before the first; the first success is deleted
\* first, and the second is next
C24_Witness ==
  /\ pc = "cleanup"
  /\ completed = <<2, 1>>
  /\ Len(successful_downloads) = 2
  /\ c = 2
  /\ Len(deletes) = 1 /\ deletes[1].i = 1
  /\ NeedsCleanup(successful_downloads[2].uri)

(***************************************************************************)
(* C25: the step in which a fetch fails before its file is opened (no      *)
(* response, or a status that is no success) leaves every file as it is;   *)
(* a file is made, emptied or written only in a step of a fetch that has   *)
(* had a success status and holds the file open after the step, and only   *)
(* the file at the target path of that fetch.                              *)
(***************************************************************************)
C25_FailsBeforeOpenStep ==
  \A t \in DOMAIN task :
    (task[t].st = "requested" /\ t \in DOMAIN task' /\ task'[t].st = "failed") =>
      files' = files

C25_OnlyOpenFetchWrites ==
  files' # files =>
    \E t \in DOMAIN task :
      /\ task[t].st \in {"requested", "writing"}
      /\ t \in DOMAIN task' /\ task'[t].st = "writing"
      /\ \A p \in DOMAIN files :
           p # download_tasks[t].filepath => (p \in DOMAIN files' /\ files'[p] = files[p])
      /\ DOMAIN files' = DOMAIN files \cup {download_tasks[t].filepath}

C25_FailureBeforeBodyKeepsFile ==
  [][C25_FailsBeforeOpenStep /\ C25_OnlyOpenFetchWrites]_vars

\* the first fetch failed and no file is at its target path; the second
\* fetch wrote its own file
C25_Witness ==
  /\ pc = "gather"
  /\ media_uris = <<UrlClip, GsImageX>>
  /\ Len(task) = 2
  /\ task[1].st = "failed" /\ task[2].st = "ok"
  /\ download_tasks[1].filepath \notin DOMAIN files
  /\ DOMAIN files = {download_tasks[2].filepath}

(***************************************************************************)
(* C26: the polling loop of generate is left as soon as the operation is   *)
(* done and otherwise once more than 300 seconds have passed, whether the  *)
(* refreshes return or raise: the loop is not at its head, with an         *)
(* operation that is not done, when the time measured is more than one     *)
(* sleep above the timeout.                                                *)
(***************************************************************************)
C26_PollingEndsAfterTimeout ==
  (pc = "poll" /\ ~operation_done /\ elapsed # <<>>) =>
    elapsed[1] <= TimeoutSeconds + SleepSeconds

(***************************************************************************)
(* C27: a refresh that raises before the timeout does not end generate:    *)
(* once generate_videos has returned an operation, generate does not end   *)
(* with typer.Exit, the first refresh included.                            *)
(***************************************************************************)
C27_RefreshErrorNeverAborts ==
  pc = "exit" => (api_params = NotSent /\ error # "UnboundLocalError")

(***************************************************************************)
(* C28: the number of videos, the duration and the aspect ratio that       *)
(* generate sends to generate_videos are supported by the model, and each  *)
(* is the value validate_and_correct_options gives for the option.         *)
(***************************************************************************)
C28_SentOptionsSupported ==
  api_params.sent =>
    LET caps == get_model_config(model)
    IN  /\ api_params.number_of_videos \in 1..caps.max_videos
        /\ api_params.duration_seconds \in Range(caps.duration.options)
        /\ api_params.aspect_ratio \in Range(caps.aspect_ratios)
        /\ validate_model_options(model,
             [ number_of_videos |-> api_params.number_of_videos,
               duration_seconds |-> api_params.duration_seconds,
               aspect_ratio     |-> api_params.aspect_ratio,
               resolution       |-> Res720 ]) = <<>>

(***************************************************************************)
(* C29: when the review loop of interactive calls generate, the resolution *)
(* is one of the resolutions of the model that is selected, and a video    *)
(* path is passed only when that model can extend a video.                 *)
(***************************************************************************)
C29_StartStep ==
  (pc = "review" /\ pc' = "generate") =>
    /\ (resolution' \o <<"p">>) \in Range(get_model_config(model').resolutions)
    /\ extend_video_path' # NoPath =>
         get_model_config(model').supports_extend_video

C29_SettingsFitFinalModel == [][C29_StartStep]_vars

(***************************************************************************)
(* C30: the default of --model is the id of a model of the registry, and   *)
(* generate called with that model does not end with 'Unknown model'.      *)
(***************************************************************************)
C30_DefaultModelIsKnown ==
  (model = DefaultModel /\ pc # "generate") =>
    (get_model_config(model) # NoConfig /\ error # "UnknownModel")

====
